---------------------------- MODULE Spec2Model ----------------------------
(***************************************************************************)
(* Model of the Cloudflare Workers reverse proxy of src/src/index.ts: the   *)
(* fetch handler (target resolution, allow/deny policy, request-header      *)
(* filtering and X-Custom-Headers merge, the forwarded call, CORS synthesis *)
(* and the final response), together with the platform primitives it calls  *)
(* (URLSearchParams, decodeURIComponent, URL, Headers, JSON, Response) on    *)
(* the inputs the model draws.  Strings are TLA+ strings; a character is a   *)
(* string of length 1.                                                      *)
(***************************************************************************)
EXTENDS Integers, Sequences, FiniteSets, TLC

VARIABLES
    request,     \* the incoming Request: method, url origin, searchParams, headers, body, cf
    env,         \* DomainsEnv: WHITELISTED_DOMAINS, BLACKLISTED_DOMAINS
    origin,      \* what the target answers to the forwarded call (or that it is unreachable)
    pc,          \* position of the handler: start, awaiting, fetched, or the return taken
    targetUrl,   \* the handler's targetUrl once the target is resolved
    outbound,    \* the forwarded request handed to fetch(targetUrl, newRequest)
    calls,       \* number of forwarded calls issued for this request
    callState,   \* none | inflight | completed | failed
    response     \* the Response the handler returned

vars == <<request, env, origin, pc, targetUrl, outbound, calls, callState, response>>

NULL == [null |-> TRUE]

-----------------------------------------------------------------------------
(* Bounds of the model.                                                    *)

MaxParams == 2
MaxHeaders == 2
MaxDomains == 2
MaxRespHeaders == 2

-----------------------------------------------------------------------------
(* Characters and strings.                                                 *)

\* The printable ASCII characters in code order: codes 32 (space) to 95 (_) and
\* codes 97 (a) to 126 (~).  Code 96 (the grave accent) cannot be written in a
\* TLA+ string and occurs in no input of the model.
AsciiLow == " !\"#$%&'()*+,-./0123456789:;<=>?@ABCDEFGHIJKLMNOPQRSTUVWXYZ[\\]^_"

AsciiHigh == "abcdefghijklmnopqrstuvwxyz{|}~"

CharAt(s, i) == SubSeq(s, i, i)

Chars ==
    {CharAt(AsciiLow, i) : i \in 1..Len(AsciiLow)}
    \cup {CharAt(AsciiHigh, i) : i \in 1..Len(AsciiHigh)}

CodeTable ==
    [c \in Chars |->
        IF \E i \in 1..Len(AsciiLow) : CharAt(AsciiLow, i) = c
        THEN 31 + (CHOOSE i \in 1..Len(AsciiLow) : CharAt(AsciiLow, i) = c)
        ELSE 96 + (CHOOSE i \in 1..Len(AsciiHigh) : CharAt(AsciiHigh, i) = c)]

CodeOf(c) == CodeTable[c]

CharOfCode(n) == IF n <= 95 THEN CharAt(AsciiLow, n - 31) ELSE CharAt(AsciiHigh, n - 96)

IsUpper(c) == CodeOf(c) >= 65 /\ CodeOf(c) <= 90

IsLower(c) == CodeOf(c) >= 97 /\ CodeOf(c) <= 122

IsDigit(c) == CodeOf(c) >= 48 /\ CodeOf(c) <= 57

IsAlpha(c) == IsUpper(c) \/ IsLower(c)

LowerTable ==
    [c \in Chars |-> IF IsUpper(c) THEN CharOfCode(CodeOf(c) + 32) ELSE c]

LowerChar(c) == LowerTable[c]

\* The concatenation of the strings pieces[lo], ..., pieces[hi].
RECURSIVE JoinPieces(_, _, _)
JoinPieces(pieces, lo, hi) ==
    IF lo > hi THEN ""
    ELSE IF lo = hi THEN pieces[lo]
    ELSE LET mid == (lo + hi) \div 2
         IN  JoinPieces(pieces, lo, mid) \o JoinPieces(pieces, mid + 1, hi)

ToLower(s) == JoinPieces([i \in 1..Len(s) |-> LowerChar(CharAt(s, i))], 1, Len(s))

StartsWith(s, p) == Len(s) >= Len(p) /\ SubSeq(s, 1, Len(p)) = p

Contains(s, p) ==
    \E i \in 1..(Len(s) - Len(p) + 1) : SubSeq(s, i, i + Len(p) - 1) = p

\* Index of the first occurrence of p in s at or after position from; 0 when none.
IndexOf(s, p, from) ==
    LET hits == {i \in from..(Len(s) - Len(p) + 1) : SubSeq(s, i, i + Len(p) - 1) = p}
    IN  IF hits = {} THEN 0 ELSE CHOOSE i \in hits : \A j \in hits : i <= j

\* Lexicographic order by character code (the order Headers iterates names in).
StrLess(a, b) ==
    LET n == IF Len(a) < Len(b) THEN Len(a) ELSE Len(b)
        diffs == {i \in 1..n : CharAt(a, i) # CharAt(b, i)}
    IN  IF diffs = {} THEN Len(a) < Len(b)
        ELSE LET d == CHOOSE i \in diffs : \A j \in diffs : i <= j
             IN  CodeOf(CharAt(a, d)) < CodeOf(CharAt(b, d))

\* Number.prototype.toString for the small non-negative integers used as keys.
RECURSIVE NatToStr(_)
NatToStr(n) ==
    IF n < 10 THEN CharOfCode(48 + n)
    ELSE NatToStr(n \div 10) \o CharOfCode(48 + (n % 10))

\* Sets of at most k indices out of 1..n.
RECURSIVE IndexSetsUpTo(_, _)
IndexSetsUpTo(n, k) ==
    IF k = 0 THEN {{}}
    ELSE LET smaller == IndexSetsUpTo(n, k - 1)
         IN  smaller \cup {S \cup {i} : S \in smaller, i \in 1..n}

\* Sub-sequences of seq with at most k elements, order kept.
SubSeqsUpTo(seq, k) ==
    {[j \in 1..Cardinality(S) |->
         seq[CHOOSE i \in S : Cardinality({m \in S : m < i}) = j - 1]] :
     S \in IndexSetsUpTo(Len(seq), k)}

\* Sequences over set S of length at most k.
RECURSIVE SeqsUpTo(_, _)
SeqsUpTo(S, k) ==
    IF k = 0 THEN {<<>>}
    ELSE SeqsUpTo(S, k - 1)
         \cup {<<x>> \o t : x \in S, t \in {u \in SeqsUpTo(S, k - 1) : Len(u) = k - 1}}

-----------------------------------------------------------------------------
(* JavaScript values.                                                      *)

\* string | null, as returned by URLSearchParams.get and Headers.get.
Some(v) == [some |-> TRUE, val |-> v]

None == [some |-> FALSE, val |-> ""]

\* !x for x : string | null.
Falsy(opt) == ~opt.some \/ opt.val = ""

\* x || dflt for x : string | null.
OrElse(opt, dflt) == IF Falsy(opt) THEN dflt ELSE opt.val

\* A plain object: its own properties in insertion order.  obj[key] = value
\* replaces the value of an existing key (compared exactly, case included) and
\* appends a new key.  (Integer-like keys are enumerated first by JavaScript;
\* they collide with no other key, and the order of distinct names has no
\* effect on the Headers built from the object.)
ObjHas(obj, key) == \E i \in 1..Len(obj) : obj[i].key = key

ObjSet(obj, key, value) ==
    IF ObjHas(obj, key)
    THEN [i \in 1..Len(obj) |->
            IF obj[i].key = key THEN [key |-> key, value |-> value] ELSE obj[i]]
    ELSE Append(obj, [key |-> key, value |-> value])

ObjGet(obj, key) ==
    IF ObjHas(obj, key)
    THEN Some(obj[CHOOSE i \in 1..Len(obj) : obj[i].key = key].value)
    ELSE None

\* for (const [key, value] of entries) obj[key] = value, in order.
RECURSIVE ObjAssignAll(_, _)
ObjAssignAll(obj, entries) ==
    IF Len(obj) = 0 /\ Len(entries) = 0 THEN <<>>
    ELSE IF Len(entries) = 0 THEN obj
    ELSE IF Len(entries) = 1 THEN ObjSet(obj, entries[1].key, entries[1].value)
    ELSE LET mid == Len(entries) \div 2
         IN  ObjAssignAll(ObjAssignAll(obj, SubSeq(entries, 1, mid)),
                          SubSeq(entries, mid + 1, Len(entries)))

-----------------------------------------------------------------------------
(* URLSearchParams, decodeURIComponent, URL.                               *)

\* URLSearchParams.get: the value of the first pair with that name, or null.
SearchParamsGet(params, name) ==
    IF \E i \in 1..Len(params) : params[i].name = name
    THEN Some(params[CHOOSE i \in 1..Len(params) :
                  /\ params[i].name = name
                  /\ \A j \in 1..(i - 1) : params[j].name # name].value)
    ELSE None

\* URLSearchParams.size: the number of pairs, duplicates counted.
SearchParamsSize(params) == Len(params)

HexVal(c) ==
    IF IsDigit(c) THEN CodeOf(c) - 48
    ELSE IF CodeOf(c) >= 65 /\ CodeOf(c) <= 70 THEN CodeOf(c) - 55
    ELSE IF CodeOf(c) >= 97 /\ CodeOf(c) <= 102 THEN CodeOf(c) - 87
    ELSE -1

\* decodeURIComponent: [ok, value]; ok = FALSE is the URIError it throws.  A
\* "%" must be followed by two hex digits.  The inputs hold no multi-byte
\* UTF-8 sequence, so an escaped byte >= 0x80 is a malformed sequence; escapes
\* of characters outside the model's alphabet occur in no input.
DecodeURIComponent(s) ==
    LET escapes == {i \in 1..Len(s) : CharAt(s, i) = "%"}
        code(i) == 16 * HexVal(CharAt(s, i + 1)) + HexVal(CharAt(s, i + 2))
        valid(i) == /\ i + 2 <= Len(s)
                    /\ HexVal(CharAt(s, i + 1)) >= 0
                    /\ HexVal(CharAt(s, i + 2)) >= 0
                    /\ code(i) >= 32 /\ code(i) <= 126 /\ code(i) # 96
        pieces == [i \in 1..Len(s) |->
                      IF i \in escapes THEN CharOfCode(code(i))
                      ELSE IF (i - 1) \in escapes \/ (i - 2) \in escapes THEN ""
                      ELSE CharAt(s, i)]
    IN  IF \A i \in escapes : valid(i)
        THEN [ok |-> TRUE, value |-> JoinPieces(pieces, 1, Len(s))]
        ELSE [ok |-> FALSE, value |-> ""]

IsSchemeChar(c) == IsAlpha(c) \/ IsDigit(c) \/ c \in {"+", "-", "."}

\* new URL(s) for strings of the shape scheme://host[:port][/path][?query]:
\* [ok, href, hostname]; ok = FALSE is the TypeError it throws (no scheme, or
\* an empty host).  The parser lower-cases scheme and host and gives an empty
\* path the value "/".
URLParse(s) ==
    LET colon == IndexOf(s, ":", 1)
        bad == [ok |-> FALSE, href |-> "", hostname |-> ""]
    IN  IF colon <= 1 THEN bad
        ELSE IF ~IsAlpha(CharAt(s, 1))
                \/ \E i \in 1..(colon - 1) : ~IsSchemeChar(CharAt(s, i))
        THEN bad
        ELSE IF SubSeq(s, colon + 1, colon + 2) # "//" THEN bad
        ELSE LET from == colon + 3
                 stops == {i \in from..Len(s) : CharAt(s, i) \in {"/", "?", "#"}}
                 stop == IF stops = {} THEN Len(s) + 1
                         ELSE CHOOSE i \in stops : \A j \in stops : i <= j
                 authority == SubSeq(s, from, stop - 1)
                 portAt == IndexOf(authority, ":", 1)
                 host == IF portAt = 0 THEN authority
                         ELSE SubSeq(authority, 1, portAt - 1)
                 tail == SubSeq(s, stop, Len(s))
                 path == IF StartsWith(tail, "/") THEN tail ELSE "/" \o tail
             IN  IF Len(host) = 0 THEN bad
                 ELSE [ok |-> TRUE,
                       href |-> ToLower(SubSeq(s, 1, colon - 1)) \o "://"
                                \o ToLower(authority) \o path,
                       hostname |-> ToLower(host)]

-----------------------------------------------------------------------------
(* Headers.                                                                *)

\* A Headers object is its entries as entries() yields them: names lower-case,
\* sorted by name, the values of one name combined with ", " (set-cookie, which
\* is never combined, once per value in arrival order).

RECURSIVE TrimLeft(_)
TrimLeft(s) ==
    IF Len(s) > 0 /\ CharAt(s, 1) = " " THEN TrimLeft(SubSeq(s, 2, Len(s))) ELSE s

RECURSIVE TrimRight(_)
TrimRight(s) ==
    IF Len(s) > 0 /\ CharAt(s, Len(s)) = " "
    THEN TrimRight(SubSeq(s, 1, Len(s) - 1)) ELSE s

\* Header values are normalised: leading and trailing whitespace is removed.
NormalizeValue(v) == TrimRight(TrimLeft(v))

IsTokenChar(c) ==
    IsAlpha(c) \/ IsDigit(c)
    \/ c \in {"!", "#", "$", "%", "&", "'", "*", "+", "-", ".", "^", "_", "|", "~"}

\* A header name must be a non-empty token.
IsHeaderName(name) ==
    Len(name) > 0 /\ \A i \in 1..Len(name) : IsTokenChar(CharAt(name, i))

HeadersHas(h, name) == \E i \in 1..Len(h) : h[i].name = ToLower(name)

HeadersInsert(h, n, v) ==
    LET before == Cardinality({i \in 1..Len(h) : ~StrLess(n, h[i].name)})
    IN  SubSeq(h, 1, before) \o <<[name |-> n, value |-> v]>>
        \o SubSeq(h, before + 1, Len(h))

HeadersAppend(h, name, value) ==
    LET n == ToLower(name)
        v == NormalizeValue(value)
    IN  IF n # "set-cookie" /\ HeadersHas(h, n)
        THEN [i \in 1..Len(h) |->
                IF h[i].name = n
                THEN [name |-> n, value |-> h[i].value \o ", " \o v]
                ELSE h[i]]
        ELSE HeadersInsert(h, n, v)

HeadersDelete(h, name) == SelectSeq(h, LAMBDA e : e.name # ToLower(name))

HeadersSet(h, name, value) ==
    HeadersInsert(HeadersDelete(h, name), ToLower(name), NormalizeValue(value))

RECURSIVE JoinValues(_)
JoinValues(es) ==
    IF Len(es) = 0 THEN ""
    ELSE IF Len(es) = 1 THEN es[1].value
    ELSE es[1].value \o ", " \o JoinValues(SubSeq(es, 2, Len(es)))

\* Headers.get: the values of that name joined with ", ", or null.
HeadersGet(h, name) ==
    IF HeadersHas(h, name)
    THEN Some(JoinValues(SelectSeq(h, LAMBDA e : e.name = ToLower(name))))
    ELSE None

\* Every [key, value] of entries appended in order.
RECURSIVE HeadersAppendAll(_, _)
HeadersAppendAll(h, entries) ==
    IF Len(h) = 0 /\ Len(entries) = 0 THEN <<>>
    ELSE IF Len(entries) = 0 THEN h
    ELSE IF Len(entries) = 1 THEN HeadersAppend(h, entries[1].key, entries[1].value)
    ELSE LET mid == Len(entries) \div 2
         IN  HeadersAppendAll(HeadersAppendAll(h, SubSeq(entries, 1, mid)),
                              SubSeq(entries, mid + 1, Len(entries)))

\* The Headers a message arrives with, from its header lines in wire order.
HeadersFromList(list) ==
    HeadersAppendAll(<<>>, [i \in 1..Len(list) |->
                               [key |-> list[i].name, value |-> list[i].value]])

\* new Headers(record): every property appended in order, [ok, headers];
\* ok = FALSE is the TypeError for a key that is no header name.
HeadersFromRecord(obj) ==
    IF \A i \in 1..Len(obj) : IsHeaderName(obj[i].key)
    THEN [ok |-> TRUE, headers |-> HeadersAppendAll(<<>>, obj)]
    ELSE [ok |-> FALSE, headers |-> <<>>]

-----------------------------------------------------------------------------
(* JSON.                                                                   *)

\* JSON values of the model: null, a number (its digits), a string, and an
\* object whose member values are strings.  The texts the model draws are
\* either of these shapes or no JSON at all.
JSONNull == [type |-> "null", str |-> "", entries |-> <<>>]

JSONNumber(digits) == [type |-> "number", str |-> digits, entries |-> <<>>]

JSONString(str) == [type |-> "string", str |-> str, entries |-> <<>>]

JSONObject(entries) == [type |-> "object", str |-> "", entries |-> entries]

ScanFail == [ok |-> FALSE, str |-> "", next |-> 0]

\* The number of backslashes in a row that end just before position j, none
\* before position from.
BackslashRun(s, from, j) ==
    LET others == {k \in from..(j - 1) : CharAt(s, k) # "\\"}
        last == IF others = {} THEN from - 1
                ELSE CHOOSE k \in others : \A m \in others : m <= k
    IN  j - 1 - last

\* The characters of a JSON string from position i (just after the opening
\* quote) to its closing quote, the first quote no backslash escapes:
\* [ok, str, next], next the position after the quote.  The escapes \" \\ and
\* \/ are decoded; any other is a syntax error.
ScanString(s, i) ==
    LET closers == {j \in i..Len(s) :
                       CharAt(s, j) = "\"" /\ BackslashRun(s, i, j) % 2 = 0}
        close == CHOOSE j \in closers : \A k \in closers : j <= k
        escapes == {k \in i..(close - 1) :
                       CharAt(s, k) = "\\" /\ BackslashRun(s, i, k) % 2 = 0}
        pieces == [k \in i..(close - 1) |-> IF k \in escapes THEN "" ELSE CharAt(s, k)]
    IN  IF closers = {} THEN ScanFail
        ELSE IF \E k \in escapes : CharAt(s, k + 1) \notin {"\"", "\\", "/"}
        THEN ScanFail
        ELSE [ok |-> TRUE, str |-> JoinPieces(pieces, i, close - 1), next |-> close + 1]

ParseString(s, i) ==
    IF i <= Len(s) /\ CharAt(s, i) = "\"" THEN ScanString(s, i + 1) ELSE ScanFail

MembersFail == [ok |-> FALSE, entries |-> <<>>, next |-> 0]

RECURSIVE ParseMembers(_, _, _)
\* After the member that made the object obj and ended before position i:
\* the closing brace, or a comma and the next member.
MembersAfter(s, i, obj) ==
    IF CharAt(s, i) = "}" THEN [ok |-> TRUE, entries |-> obj, next |-> i + 1]
    ELSE IF CharAt(s, i) = "," THEN ParseMembers(s, i + 1, obj)
    ELSE MembersFail

\* After the key k of a member: its value v, a string.
MemberValue(s, k, v, acc) ==
    IF ~v.ok \/ v.next > Len(s) THEN MembersFail
    ELSE MembersAfter(s, v.next, ObjSet(acc, k.str, v.str))

\* The key k of a member, the colon and the value.
MemberKey(s, k, acc) ==
    IF ~k.ok \/ k.next > Len(s) \/ CharAt(s, k.next) # ":" THEN MembersFail
    ELSE MemberValue(s, k, ParseString(s, k.next + 1), acc)

\* The members "key":"value"[,...] of an object from position i up to and
\* including its closing brace.  A repeated key keeps its first position and
\* takes its last value.
ParseMembers(s, i, acc) == MemberKey(s, ParseString(s, i), acc)

IsJSONNumber(s) ==
    /\ Len(s) > 0
    /\ \A i \in 1..Len(s) : IsDigit(CharAt(s, i))
    /\ (Len(s) > 1 => CharAt(s, 1) # "0")

ParseFail == [ok |-> FALSE, value |-> JSONNull]

\* The scanned string r is the value of text when it ends where text ends.
WholeString(r, text) ==
    IF r.ok /\ r.next = Len(text) + 1
    THEN [ok |-> TRUE, value |-> JSONString(r.str)]
    ELSE ParseFail

\* The scanned members r are the value of text when they end where text ends.
WholeObject(r, text) ==
    IF r.ok /\ r.next = Len(text) + 1
    THEN [ok |-> TRUE, value |-> JSONObject(r.entries)]
    ELSE ParseFail

\* JSON.parse: [ok, value]; ok = FALSE is the SyntaxError it throws.
JSONParse(text) ==
    IF text = "null" THEN [ok |-> TRUE, value |-> JSONNull]
    ELSE IF IsJSONNumber(text) THEN [ok |-> TRUE, value |-> JSONNumber(text)]
    ELSE IF StartsWith(text, "\"") THEN WholeString(ParseString(text, 1), text)
    ELSE IF text = "{}" THEN [ok |-> TRUE, value |-> JSONObject(<<>>)]
    ELSE IF StartsWith(text, "{") THEN WholeObject(ParseMembers(text, 2, <<>>), text)
    ELSE ParseFail

JSONQuote(str) ==
    JoinPieces([i \in 1..Len(str) |->
                   (IF CharAt(str, i) \in {"\"", "\\"} THEN "\\" ELSE "")
                   \o CharAt(str, i)],
               1, Len(str))

RECURSIVE JSONMembers(_)
JSONMembers(obj) ==
    IF Len(obj) = 0 THEN ""
    ELSE "\"" \o JSONQuote(obj[1].key) \o "\":\"" \o JSONQuote(obj[1].value) \o "\""
         \o (IF Len(obj) > 1 THEN "," ELSE "")
         \o JSONMembers(SubSeq(obj, 2, Len(obj)))

\* JSON.stringify of a Record<string, string>.
JSONStringify(obj) == "{" \o JSONMembers(obj) \o "}"

\* Object.entries: the members of an object; index/character pairs of a
\* string; nothing for a number.
ObjectEntries(v) ==
    IF v.type = "object" THEN v.entries
    ELSE IF v.type = "string"
    THEN [i \in 1..Len(v.str) |-> [key |-> NatToStr(i - 1), value |-> CharAt(v.str, i)]]
    ELSE <<>>

-----------------------------------------------------------------------------
(* The handler's functions.                                                *)

\* Array.prototype.includes.
Includes(arr, x) == \E i \in 1..Len(arr) : arr[i] = x

\* An optional string[] of the environment: configured or undefined.
Configured(list) == [configured |-> TRUE, list |-> list]

Unconfigured == [configured |-> FALSE, list |-> <<>>]

\* The mutant of isAllowedTarget: a whitelisted hostname is let through before
\* the blacklist is looked at.
isAllowedTargetWhitelistFirst(url, e) ==
    IF e.WHITELISTED_DOMAINS.configured
       /\ Includes(e.WHITELISTED_DOMAINS.list, url.hostname)
    THEN TRUE
    ELSE IF e.BLACKLISTED_DOMAINS.configured
            /\ Includes(e.BLACKLISTED_DOMAINS.list, url.hostname)
    THEN FALSE
    ELSE ~e.WHITELISTED_DOMAINS.configured

\* The mutant of isAllowedTarget: an empty whitelist is taken as no whitelist.
isAllowedTargetEmptyIsOpen(url, e) ==
    IF e.BLACKLISTED_DOMAINS.configured
       /\ Includes(e.BLACKLISTED_DOMAINS.list, url.hostname)
    THEN FALSE
    ELSE IF e.WHITELISTED_DOMAINS.configured
            /\ Len(e.WHITELISTED_DOMAINS.list) > 0
            /\ Includes(e.WHITELISTED_DOMAINS.list, url.hostname) = FALSE
    THEN FALSE
    ELSE TRUE

\* env.X?.includes(h) is undefined for an unconfigured list: not truthy, and
\* not === false.
isAllowedTarget(url, e) ==
    IF e.BLACKLISTED_DOMAINS.configured
       /\ Includes(e.BLACKLISTED_DOMAINS.list, url.hostname)
    THEN FALSE
    ELSE IF e.WHITELISTED_DOMAINS.configured
            /\ Includes(e.WHITELISTED_DOMAINS.list, url.hostname) = FALSE
    THEN FALSE
    ELSE TRUE

DefaultAllowMethods == "GET, POST, PUT, DELETE, OPTIONS"

\* The mutant of setupCORSHeaders: X-Content-Type-Options is deleted whether or
\* not the request is a preflight.
setupCORSHeadersAlwaysDelete(req, headers) ==
    LET h1 == HeadersSet(headers, "Access-Control-Allow-Origin",
                         OrElse(HeadersGet(req.headers, "Origin"), req.url.origin))
        h2 == IF req.method = "OPTIONS"
              THEN HeadersSet(h1, "Access-Control-Allow-Methods",
                       OrElse(HeadersGet(req.headers, "access-control-request-method"),
                              DefaultAllowMethods))
              ELSE h1
        requestedHeaders == HeadersGet(req.headers, "access-control-request-headers")
        h3 == IF req.method = "OPTIONS" /\ ~Falsy(requestedHeaders)
              THEN HeadersSet(h2, "Access-Control-Allow-Headers", requestedHeaders.val)
              ELSE h2
    IN  HeadersDelete(h3, "X-Content-Type-Options")

setupCORSHeaders(req, headers) ==
    LET isPreflightRequest == req.method = "OPTIONS"
        h1 == HeadersSet(headers, "Access-Control-Allow-Origin",
                         OrElse(HeadersGet(req.headers, "Origin"), req.url.origin))
    IN  IF isPreflightRequest
        THEN LET h2 == HeadersSet(h1, "Access-Control-Allow-Methods",
                           OrElse(HeadersGet(req.headers, "access-control-request-method"),
                                  DefaultAllowMethods))
                 requestedHeaders ==
                     HeadersGet(req.headers, "access-control-request-headers")
                 h3 == IF ~Falsy(requestedHeaders)
                       THEN HeadersSet(h2, "Access-Control-Allow-Headers",
                                       requestedHeaders.val)
                       ELSE h2
             IN  HeadersDelete(h3, "X-Content-Type-Options")
        ELSE h1

baseResponse(originUrl) ==
    "Cloudflare Workers as a Reverse Proxy!\n"
    \o "(c) 2025 lunaiz. Co., Ltd. (https://lunaiz.com)\n\n"
    \o "Source:\nhttps://github.com/lunaiz-corp/cloudflare-reverse-proxy.git\n\n"
    \o "Usage:\n" \o originUrl.origin \o "/?url={uri}\n"
    \o "* Header origin or x-requested-with must be set by the client.\n"
    \o "* Target URL must be URL-encoded fully (Example: 'url=https%253A%252F%252Fexample.com%252F%253Ftest').\n"
    \o "* Forbidden headers such as Cookies should be set via \"X-Custom-Headers\" header as a JSON object string.\n\n"
    \o "Donate:\nhttps://github.com/sponsors/lunaiz-corp\n\n"
    \o "----------------------------\n\n"

\* request.cf?.country || 'Unknown'
CfField(cf, value) == IF cf.present /\ value # "" THEN value ELSE "Unknown"

connectingInfo(req) ==
    "Connecting Info:\n"
    \o "* Origin: " \o OrElse(HeadersGet(req.headers, "Origin"), "Unknown") \o "\n"
    \o "* IP: " \o OrElse(HeadersGet(req.headers, "CF-Connecting-IP"), "Unknown") \o "\n"
    \o "* Country: " \o CfField(req.cf, req.cf.country) \o "\n"
    \o "* Data Centre: " \o CfField(req.cf, req.cf.colo) \o "\n"
    \o "* X-Custom-Headers: " \o OrElse(HeadersGet(req.headers, "X-Custom-Headers"), "None")

\* new Response(text, {status, statusText}): a string body brings its
\* content-type.
TextResponse(text, status, statusText) ==
    [status |-> status, statusText |-> statusText,
     headers |-> <<[name |-> "content-type", value |-> "text/plain;charset=UTF-8"]>>,
     body |-> Some(text)]

targetUrlParam(req) == SearchParamsGet(req.url.searchParams, "url")

\* The mutant of IsAmbiguousQuery: the comparison is off by one.
IsAmbiguousQueryOffByOne(req) == SearchParamsSize(req.url.searchParams) > 2

IsAmbiguousQuery(req) == SearchParamsSize(req.url.searchParams) > 1

\* new URL(decoded), decoded the outcome of decodeURIComponent: either call
\* may throw.
URLParseDecoded(decoded) ==
    IF decoded.ok THEN URLParse(decoded.value)
    ELSE [ok |-> FALSE, href |-> "", hostname |-> ""]

\* new URL(decodeURIComponent(targetUrlParam)) inside the try block.
ResolveTarget(req) ==
    URLParseDecoded(DecodeURIComponent(targetUrlParam(req).val))

\* try { customHeaders = JSON.parse(customHeaders) } catch {}: the parsed
\* value, or the string as it was.
ParsedOrRaw(parsed, raw) == IF parsed.ok THEN parsed.value ELSE JSONString(raw)

\* if (customHeaders !== null) around the try block.
ParseCustomHeaders(raw) ==
    IF ~raw.some THEN JSONNull ELSE ParsedOrRaw(JSONParse(raw.val), raw.val)

\* customHeaders after the try block: null when the header is absent or is
\* the text null, the parsed value when JSON.parse succeeds, and still the raw
\* string when it throws.
customHeadersOf(req) ==
    ParseCustomHeaders(HeadersGet(req.headers, "X-Custom-Headers"))

\* The mutant of NameIsFiltered: the referer pattern is anchored like the others.
NameIsFilteredAnchored(key) ==
    \/ StartsWith(key, "origin")
    \/ StartsWith(key, "referer")
    \/ StartsWith(key, "cf-")
    \/ StartsWith(key, "x-forw")
    \/ StartsWith(key, "x-custom-headers")

\* key.match(...) !== null for one of the five patterns.
NameIsFiltered(key) ==
    \/ StartsWith(key, "origin")
    \/ Contains(key, "eferer")
    \/ StartsWith(key, "cf-")
    \/ StartsWith(key, "x-forw")
    \/ StartsWith(key, "x-custom-headers")

\* The loop over request.headers.entries() that fills filteredHeaders.
RECURSIVE FilterHeaders(_)
FilterHeaders(entries) ==
    IF Len(entries) = 0 THEN <<>>
    ELSE LET init == FilterHeaders(SubSeq(entries, 1, Len(entries) - 1))
             last == entries[Len(entries)]
         IN  IF NameIsFiltered(last.name) THEN init
             ELSE ObjSet(init, last.name, last.value)

\* if (customHeaders !== null) { for (const [key, value] of
\* Object.entries(customHeaders)) filteredHeaders[key] = value }.
AssignCustomHeaders(filtered, customHeaders) ==
    IF customHeaders # JSONNull
    THEN ObjAssignAll(filtered, ObjectEntries(customHeaders))
    ELSE filtered

\* filteredHeaders as handed to new Request: the filtered incoming headers,
\* then every entry of customHeaders assigned on top.
filteredHeadersOf(req) ==
    AssignCustomHeaders(FilterHeaders(req.headers), customHeadersOf(req))

\* The request new Request(request, init) builds from request and the Headers
\* h made of init.headers; ok = FALSE when making h threw.
RequestWith(req, h) ==
    [ok |-> h.ok, method |-> req.method, headers |-> h.headers,
     body |-> req.body, redirect |-> "follow"]

\* new Request(request, {redirect: 'follow', headers: filteredHeaders}).
newRequestOf(req) ==
    RequestWith(req, HeadersFromRecord(filteredHeadersOf(req)))

RECURSIVE JoinNames(_)
JoinNames(names) ==
    IF Len(names) = 0 THEN ""
    ELSE IF Len(names) = 1 THEN names[1]
    ELSE names[1] \o "," \o JoinNames(SubSeq(names, 2, Len(names)))

\* allResponseHeaders: one property per entry of response.headers.
RECURSIVE allResponseHeadersOf(_)
allResponseHeadersOf(entries) ==
    IF Len(entries) = 0 THEN <<>>
    ELSE ObjSet(allResponseHeadersOf(SubSeq(entries, 1, Len(entries) - 1)),
                entries[Len(entries)].name, entries[Len(entries)].value)

exposedHeadersOf(entries) ==
    Append([i \in 1..Len(entries) |-> entries[i].name], "x-received-headers")

\* responseHeaders as handed to the final Response.
responseHeadersOf(req, originHeaders) ==
    LET cors == setupCORSHeaders(req, originHeaders)
        received == HeadersSet(cors, "x-received-headers",
                               JSONStringify(allResponseHeadersOf(originHeaders)))
    IN  HeadersSet(received, "Access-Control-Expose-Headers",
                   JoinNames(exposedHeadersOf(originHeaders)))

\* The mutant of ResponseStatus: the target's status is passed on for a
\* preflight too.
ResponseStatusVerbatim(isPreflightRequest, status) == status

\* status: isPreflightRequest ? 200 : response.status
ResponseStatus(isPreflightRequest, status) ==
    IF isPreflightRequest THEN 200 ELSE status

ResponseStatusText(isPreflightRequest, statusText) ==
    IF isPreflightRequest THEN "OK" ELSE statusText

\* A null body status: the Response constructor throws a TypeError when it is
\* given a body (an ArrayBuffer, even an empty one) with one of these.
NullBodyStatus == {101, 204, 205, 304}

-----------------------------------------------------------------------------
(* The inputs: requests, environments and targets.                         *)

H(name, value) == [name |-> name, value |-> value]

P(name, value) == [name |-> name, value |-> value]

ProxyOrigin == "https://p.dev"

NoCf == [present |-> FALSE, country |-> "", colo |-> ""]

SomeCf == [present |-> TRUE, country |-> "KR", colo |-> "ICN"]

\* Values of query parameters as URLSearchParams yields them: empty, an
\* encoded target, a target left unencoded (upper-case host, a path), a string
\* that is no absolute URL, and a malformed escape.
QueryValues == {"", "https%3A%2F%2Fa.com", "https://B.com/x", "a.com", "%zz"}

QueryPairs == {P(n, v) : n \in {"url", "q"}, v \in QueryValues}

Hosts == {"a.com", "b.com"}

\* Header lines a client may send, upper and lower case.
IncomingHeaderUniverse ==
    << H("Accept", "*/*"),
       H("Cookie", "x=0"),
       H("Origin", "https://c.dev"),
       H("Referer", "https://c.dev/"),
       H("X-Referer", "r"),
       H("CF-Connecting-IP", "1.2.3.4"),
       H("X-Forwarded-For", "1.2.3.4"),
       H("Access-Control-Request-Method", "PUT"),
       H("access-control-request-method", ""),
       H("Access-Control-Request-Headers", "x-foo"),
       H("X-Custom-Headers", "{\"cookie\":\"a=1\"}"),
       H("X-Custom-Headers", "{\"Cookie\":\"a=1\"}"),
       H("x-custom-headers", "{\"Referer\":\"r\",\"cf-ray\":\"1\"}"),
       H("X-Custom-Headers", "{bad"),
       H("X-Custom-Headers", "null"),
       H("X-Custom-Headers", "7"),
       H("X-Custom-Headers", "{\"a b\":\"1\"}"),
       H("X-Custom-Headers", "\"hi\""),
       H("X-Custom-Headers", "") >>

\* Header lines a target may answer with.
ResponseHeaderUniverse ==
    << H("X-Foo", "bar"),
       H("Set-Cookie", "a=1"),
       H("Set-Cookie", "b=2"),
       H("X-Content-Type-Options", "nosniff"),
       H("Access-Control-Allow-Origin", "*"),
       H("Access-Control-Allow-Methods", "GET"),
       H("X-Quote", "a\"b\\c") >>

Statuses == {<<200, "OK">>, <<404, "Not Found">>, <<204, "No Content">>}

Request(method, params, headerLines, cf) ==
    [method |-> method,
     url |-> [origin |-> ProxyOrigin, searchParams |-> params],
     headers |-> HeadersFromList(headerLines),
     body |-> IF method = "POST" THEN Some("payload") ELSE None,
     cf |-> cf]

Env(allow, deny) == [WHITELISTED_DOMAINS |-> allow, BLACKLISTED_DOMAINS |-> deny]

DomainLists == {Unconfigured} \cup {Configured(l) : l \in SeqsUpTo(Hosts, MaxDomains)}

Origin(status, headerLines, body) ==
    [reachable |-> TRUE, status |-> status[1], statusText |-> status[2],
     headers |-> HeadersFromList(headerLines), body |-> body]

Unreachable ==
    [reachable |-> FALSE, status |-> 0, statusText |-> "", headers |-> <<>>, body |-> ""]

DefaultParams == <<P("url", "https%3A%2F%2Fa.com")>>

DefaultEnv == Env(Unconfigured, Unconfigured)

DefaultOrigin == Origin(<<200, "OK">>, <<H("X-Foo", "bar")>>, "hello")

Scenario(req, e, o) == [request |-> req, env |-> e, origin |-> o]

\* Every query of at most MaxParams parameters.
ResolverScenarios ==
    {Scenario(Request("GET", q, hl, cf), DefaultEnv, DefaultOrigin) :
        q \in SeqsUpTo(QueryPairs, MaxParams),
        hl \in {<<>>, <<H("Origin", "https://c.dev"), H("CF-Connecting-IP", "1.2.3.4")>>},
        cf \in {NoCf, SomeCf}}

\* Every allow list and deny list of at most MaxDomains hostnames.
PolicyScenarios ==
    {Scenario(Request(m, <<P("url", u)>>, <<>>, NoCf), Env(allow, deny), DefaultOrigin) :
        m \in {"GET", "OPTIONS"},
        u \in {"https%3A%2F%2Fa.com", "https://B.com/x"},
        allow \in DomainLists, deny \in DomainLists}

\* Every choice of at most MaxHeaders incoming header lines.
HeaderScenarios ==
    {Scenario(Request(m, DefaultParams, hl, NoCf), DefaultEnv, DefaultOrigin) :
        m \in {"GET", "POST", "OPTIONS"},
        hl \in SubSeqsUpTo(IncomingHeaderUniverse, MaxHeaders)}

CorsRequestHeaders ==
    { <<>>,
      <<H("Origin", "https://c.dev")>>,
      <<H("Access-Control-Request-Method", "PUT")>>,
      <<H("Access-Control-Request-Method", "PUT"),
        H("Access-Control-Request-Headers", "x-foo")>> }

\* Every answer of the target with at most MaxRespHeaders header lines, and an
\* unreachable target.
ResponseScenarios ==
    {Scenario(Request(m, DefaultParams, hl, NoCf), DefaultEnv, o) :
        m \in {"GET", "OPTIONS"},
        hl \in CorsRequestHeaders,
        o \in {Unreachable}
              \cup {Origin(st, rh, IF st[1] = 204 THEN "" ELSE "hello") :
                      st \in Statuses,
                      rh \in SubSeqsUpTo(ResponseHeaderUniverse, MaxRespHeaders)}}

Scenarios ==
    ResolverScenarios \cup PolicyScenarios \cup HeaderScenarios \cup ResponseScenarios

-----------------------------------------------------------------------------
(* The handler as a state machine.                                         *)

Init ==
    /\ \E sc \in Scenarios :
          /\ request = sc.request
          /\ env = sc.env
          /\ origin = sc.origin
    /\ pc = "start"
    /\ targetUrl = NULL
    /\ outbound = NULL
    /\ calls = 0
    /\ callState = "none"
    /\ response = NULL

\* return new Response(baseResponse + 'Connecting Info: ...', 200).
NoTarget ==
    /\ pc = "start"
    /\ Falsy(targetUrlParam(request))
    /\ response' = TextResponse(baseResponse(request.url) \o connectingInfo(request),
                                200, "OK")
    /\ pc' = "noTarget"
    /\ UNCHANGED <<request, env, origin, targetUrl, outbound, calls, callState>>

\* return new Response('... Multiple query parameters detected ...', 400).
AmbiguousQuery ==
    /\ pc = "start"
    /\ ~Falsy(targetUrlParam(request))
    /\ IsAmbiguousQuery(request)
    /\ response' = TextResponse(
           baseResponse(request.url)
           \o "** Error: Multiple query parameters detected. Please ensure the target URL is fully URL-encoded.",
           400, "Bad Request")
    /\ pc' = "ambiguous"
    /\ UNCHANGED <<request, env, origin, targetUrl, outbound, calls, callState>>

\* The catch block: return new Response('... Invalid target URL ...', 400).
InvalidURL ==
    /\ pc = "start"
    /\ ~Falsy(targetUrlParam(request))
    /\ ~IsAmbiguousQuery(request)
    /\ ~ResolveTarget(request).ok
    /\ response' = TextResponse(
           baseResponse(request.url)
           \o "** Error: Invalid target URL. Please ensure the target URL is fully URL-encoded.",
           400, "Bad Request")
    /\ pc' = "invalidURL"
    /\ UNCHANGED <<request, env, origin, targetUrl, outbound, calls, callState>>

\* return new Response('... not allowed by administrator ...', 403).
Forbidden ==
    /\ pc = "start"
    /\ ~Falsy(targetUrlParam(request))
    /\ ~IsAmbiguousQuery(request)
    /\ \E target \in {ResolveTarget(request)} :
           /\ target.ok
           /\ ~isAllowedTarget(target, env)
           /\ targetUrl' = target
    /\ response' = TextResponse(
           baseResponse(request.url)
           \o "** Error: Target URL is not allowed by administrator. If this issue persists, please contact administrator for assistance.",
           403, "Forbidden")
    /\ pc' = "denied"
    /\ UNCHANGED <<request, env, origin, outbound, calls, callState>>

\* new Request(...) throws on a custom header key that is no header name: the
\* handler ends with that TypeError and returns nothing.
RequestThrows ==
    /\ pc = "start"
    /\ ~Falsy(targetUrlParam(request))
    /\ ~IsAmbiguousQuery(request)
    /\ \E target \in {ResolveTarget(request)} :
           /\ target.ok
           /\ isAllowedTarget(target, env)
           /\ ~newRequestOf(request).ok
           /\ targetUrl' = target
    /\ pc' = "threw"
    /\ UNCHANGED <<request, env, origin, outbound, calls, callState, response>>

\* The mutant of Forward: a preflight is answered 200/OK on the spot, without
\* the forwarded call.
ForwardUnlessPreflight ==
    /\ pc = "start"
    /\ ~Falsy(targetUrlParam(request))
    /\ ~IsAmbiguousQuery(request)
    /\ \E target \in {ResolveTarget(request)}, newRequest \in {newRequestOf(request)} :
           /\ target.ok
           /\ isAllowedTarget(target, env)
           /\ newRequest.ok
           /\ targetUrl' = target
           /\ IF request.method = "OPTIONS"
              THEN /\ response' = [status |-> 200, statusText |-> "OK",
                                   headers |-> responseHeadersOf(request, <<>>),
                                   body |-> None]
                   /\ pc' = "proxied"
                   /\ UNCHANGED <<outbound, calls, callState>>
              ELSE /\ outbound' = [url |-> target.href,
                                   method |-> newRequest.method,
                                   headers |-> newRequest.headers,
                                   body |-> newRequest.body,
                                   redirect |-> newRequest.redirect]
                   /\ calls' = calls + 1
                   /\ callState' = "inflight"
                   /\ pc' = "awaiting"
                   /\ UNCHANGED response
    /\ UNCHANGED <<request, env, origin>>

\* fetch(targetUrl, newRequest) is issued; the handler awaits it.
Forward ==
    /\ pc = "start"
    /\ ~Falsy(targetUrlParam(request))
    /\ ~IsAmbiguousQuery(request)
    /\ \E target \in {ResolveTarget(request)}, newRequest \in {newRequestOf(request)} :
           /\ target.ok
           /\ isAllowedTarget(target, env)
           /\ newRequest.ok
           /\ targetUrl' = target
           /\ outbound' = [url |-> target.href,
                           method |-> newRequest.method,
                           headers |-> newRequest.headers,
                           body |-> newRequest.body,
                           redirect |-> newRequest.redirect]
    /\ calls' = calls + 1
    /\ callState' = "inflight"
    /\ pc' = "awaiting"
    /\ UNCHANGED <<request, env, origin, response>>

\* The awaited fetch resolves with the target's response.
FetchFulfilled ==
    /\ pc = "awaiting"
    /\ origin.reachable
    /\ callState' = "completed"
    /\ pc' = "fetched"
    /\ UNCHANGED <<request, env, origin, targetUrl, outbound, calls, response>>

\* The mutant of FetchRejected: the handler tries the call again.
FetchRejectedRetry ==
    /\ pc = "awaiting"
    /\ ~origin.reachable
    /\ callState' = "failed"
    /\ pc' = "start"
    /\ UNCHANGED <<request, env, origin, targetUrl, outbound, calls, response>>

\* The awaited fetch rejects: nothing catches it, the handler ends with the
\* transport's error and returns nothing.
FetchRejected ==
    /\ pc = "awaiting"
    /\ ~origin.reachable
    /\ callState' = "failed"
    /\ pc' = "rejected"
    /\ UNCHANGED <<request, env, origin, targetUrl, outbound, calls, response>>

\* return new Response(responseBody, responseInit).
Respond ==
    /\ pc = "fetched"
    /\ LET isPreflightRequest == request.method = "OPTIONS"
       IN  /\ (isPreflightRequest \/ origin.status \notin NullBodyStatus)
           /\ response' =
                 [status |-> ResponseStatus(isPreflightRequest, origin.status),
                  statusText |-> ResponseStatusText(isPreflightRequest, origin.statusText),
                  headers |-> responseHeadersOf(request, origin.headers),
                  body |-> IF isPreflightRequest THEN None ELSE Some(origin.body)]
    /\ pc' = "proxied"
    /\ UNCHANGED <<request, env, origin, targetUrl, outbound, calls, callState>>

\* new Response(arrayBuffer, {status}) throws for a null body status.
ResponseThrows ==
    /\ pc = "fetched"
    /\ request.method # "OPTIONS"
    /\ origin.status \in NullBodyStatus
    /\ pc' = "threw"
    /\ UNCHANGED <<request, env, origin, targetUrl, outbound, calls, callState, response>>

Next ==
    \/ NoTarget
    \/ AmbiguousQuery
    \/ InvalidURL
    \/ Forbidden
    \/ RequestThrows
    \/ Forward
    \/ FetchFulfilled
    \/ FetchRejected
    \/ Respond
    \/ ResponseThrows

Spec == Init /\ [][Next]_vars

-----------------------------------------------------------------------------
(* Properties.                                                             *)

ErrorPaths == {"noTarget", "ambiguous", "invalidURL", "denied"}

ElementsOf(list) == {list[i] : i \in 1..Len(list)}

\* A header name of the five filter patterns, matched case-insensitively.
IsSensitiveName(name) ==
    LET n == ToLower(name)
    IN  \/ StartsWith(n, "origin")
        \/ Contains(n, "referer")
        \/ StartsWith(n, "cf-")
        \/ StartsWith(n, "x-forw")
        \/ StartsWith(n, "x-custom-headers")

\* C1 as stated: a request with two or more query parameters is answered 400,
\* whatever the parameters are.
C1_AnyTwoParamsGive400 ==
    (SearchParamsSize(request.url.searchParams) >= 2 /\ response # NULL)
        => response.status = 400

\* C1 amended: a request with two or more query parameters is answered 400
\* when its (first) url parameter is present and non-empty, whatever the other
\* parameters are; when url is absent or empty it is answered with the 200
\* information page.  Either way the handler returns at once, without a
\* forwarded call.
C1_TwoParamsWithUrlGive400 ==
    (SearchParamsSize(request.url.searchParams) >= 2 /\ pc # "start")
        => /\ response # NULL
           /\ calls = 0
           /\ IF \E i \in 1..Len(request.url.searchParams) :
                    /\ request.url.searchParams[i].name = "url"
                    /\ \A j \in 1..(i - 1) : request.url.searchParams[j].name # "url"
                    /\ request.url.searchParams[i].value # ""
              THEN pc = "ambiguous" /\ response.status = 400
              ELSE pc = "noTarget" /\ response.status = 200

C1_Witness ==
    /\ Len(request.url.searchParams) = 2
    /\ request.url.searchParams[1] = P("url", "https%3A%2F%2Fa.com")
    /\ request.url.searchParams[2] = P("q", "%zz")
    /\ pc = "ambiguous"
    /\ response.status = 400

\* C2 as stated: when X-Custom-Headers does not parse as JSON, the outbound
\* request's headers are exactly the filtered incoming headers.
C2_MalformedOverridesIgnored ==
    (/\ outbound # NULL
     /\ HeadersGet(request.headers, "X-Custom-Headers").some
     /\ ~JSONParse(HeadersGet(request.headers, "X-Custom-Headers").val).ok)
        => outbound.headers = HeadersFromRecord(FilterHeaders(request.headers)).headers

\* C3 as stated: isAllowedTarget allows every hostname when the deny set and
\* the allow set are each unconfigured or an empty list.
C3_EmptyOrUnconfiguredAllows ==
    (/\ targetUrl # NULL
     /\ env.BLACKLISTED_DOMAINS \in {Unconfigured, Configured(<<>>)}
     /\ env.WHITELISTED_DOMAINS \in {Unconfigured, Configured(<<>>)})
        => isAllowedTarget(targetUrl, env) /\ pc # "denied"

\* C3 amended: isAllowedTarget allows a hostname exactly when the deny set is
\* unconfigured or does not contain it and the allow set is unconfigured or
\* contains it.  It allows every hostname when the deny set is unconfigured or
\* empty and the allow set is unconfigured; an allow set configured as an empty
\* list denies every hostname.
C3_AllowedUnlessExcluded ==
    targetUrl # NULL =>
        LET h == targetUrl.hostname
            deny == env.BLACKLISTED_DOMAINS
            allow == env.WHITELISTED_DOMAINS
            excluded == \/ deny.configured /\ h \in ElementsOf(deny.list)
                        \/ allow.configured /\ h \notin ElementsOf(allow.list)
        IN  /\ isAllowedTarget(targetUrl, env) = ~excluded
            /\ (pc = "denied") = excluded
            /\ (allow = Configured(<<>>) => pc = "denied")
            /\ (deny \in {Unconfigured, Configured(<<>>)} /\ allow = Unconfigured
                    => pc # "denied")

C3_Witness ==
    /\ targetUrl # NULL
    /\ env.BLACKLISTED_DOMAINS = Configured(<<>>)
    /\ env.WHITELISTED_DOMAINS = Unconfigured
    /\ pc = "awaiting"

\* C4: a request whose resolved target hostname is in the configured deny set
\* is answered 403 and no forwarded call is made, whether the allow set is
\* unconfigured, contains the hostname or does not contain it.
C4_DenyTakesPrecedence ==
    (/\ targetUrl # NULL
     /\ env.BLACKLISTED_DOMAINS.configured
     /\ targetUrl.hostname \in ElementsOf(env.BLACKLISTED_DOMAINS.list))
        => /\ pc = "denied"
           /\ response # NULL
           /\ response.status = 403
           /\ calls = 0
           /\ outbound = NULL

C4_Witness ==
    /\ targetUrl # NULL
    /\ targetUrl.hostname = "b.com"
    /\ env.BLACKLISTED_DOMAINS = Configured(<<"a.com", "b.com">>)
    /\ env.WHITELISTED_DOMAINS = Configured(<<"b.com">>)
    /\ pc = "denied"
    /\ response.status = 403

\* C5 as stated: the outbound request holds no header whose name begins with
\* origin, contains referer, or begins with cf-, x-forw or x-custom-headers.
C5_NoSensitiveHeaderOutbound ==
    outbound # NULL =>
        \A i \in 1..Len(outbound.headers) : ~IsSensitiveName(outbound.headers[i].name)

\* C5 amended: no incoming header with such a name is copied to the outbound
\* request.  A header with such a name is in the outbound request only when a
\* key of X-Custom-Headers supplies it, and then with the override's value
\* alone; without such a key the outbound request holds none.
C5_SensitiveHeadersOnlyFromOverrides ==
    outbound # NULL =>
        LET overrides ==
                HeadersFromRecord(
                    ObjAssignAll(<<>>, ObjectEntries(customHeadersOf(request)))).headers
        IN  \A i \in 1..Len(outbound.headers) :
                IsSensitiveName(outbound.headers[i].name)
                    => /\ HeadersHas(overrides, outbound.headers[i].name)
                       /\ HeadersGet(outbound.headers, outbound.headers[i].name)
                            = HeadersGet(overrides, outbound.headers[i].name)

C5_Witness ==
    /\ outbound # NULL
    /\ HeadersGet(request.headers, "CF-Connecting-IP") = Some("1.2.3.4")
    /\ HeadersGet(request.headers, "Referer") = Some("https://c.dev/")
    /\ outbound.headers = <<>>

\* C6 as stated: when X-Custom-Headers parses as a JSON object, every key of
\* it is in the outbound request with exactly its value, replacing a same-named
\* incoming header, names compared case-insensitively.
C6_OverrideWins ==
    (outbound # NULL /\ customHeadersOf(request).type = "object")
        => \A i \in 1..Len(customHeadersOf(request).entries) :
              HeadersGet(outbound.headers, customHeadersOf(request).entries[i].key)
                  = Some(customHeadersOf(request).entries[i].value)

\* The JSON object carried by the response's x-received-headers header.
ReceivedHeaders ==
    JSONParse(HeadersGet(response.headers, "x-received-headers").val)

\* The last value the target returned under a name.
LastValue(headers, name) ==
    headers[CHOOSE i \in 1..Len(headers) :
               /\ headers[i].name = name
               /\ \A j \in (i + 1)..Len(headers) : headers[j].name # name].value

ProxyWrittenNames(req) ==
    {"access-control-allow-origin", "access-control-expose-headers", "x-received-headers"}
    \cup (IF req.method = "OPTIONS"
          THEN {"access-control-allow-methods"}
               \cup (IF Falsy(HeadersGet(req.headers, "access-control-request-headers"))
                     THEN {} ELSE {"access-control-allow-headers"})
          ELSE {})

C8_PreflightResponse ==
    (request.method = "OPTIONS" /\ pc = "proxied")
        => /\ response.status = 200
           /\ response.statusText = "OK"
           /\ response.body = None
           /\ HeadersGet(response.headers, "Access-Control-Allow-Methods")
                = IF HeadersHas(request.headers, "Access-Control-Request-Method")
                  THEN HeadersGet(request.headers, "Access-Control-Request-Method")
                  ELSE Some(DefaultAllowMethods)

\* C8 amended: a preflight is answered 200 OK with an empty body whatever the
\* target returned, and Access-Control-Allow-Methods is the incoming
\* Access-Control-Request-Method value (stored as Headers stores any value,
\* without leading and trailing whitespace) when that header is provided with
\* a non-empty value, else (absent or empty) the default list.
C8_PreflightResponseNonEmptyMethod ==
    (request.method = "OPTIONS" /\ pc = "proxied")
        => /\ response.status = 200
           /\ response.statusText = "OK"
           /\ response.body = None
           /\ HeadersGet(response.headers, "Access-Control-Allow-Methods")
                = IF /\ HeadersHas(request.headers, "Access-Control-Request-Method")
                     /\ HeadersGet(request.headers, "Access-Control-Request-Method").val # ""
                  THEN Some(NormalizeValue(
                           HeadersGet(request.headers, "Access-Control-Request-Method").val))
                  ELSE Some(DefaultAllowMethods)

C8_Witness ==
    /\ request.method = "OPTIONS"
    /\ pc = "proxied"
    /\ origin.status = 404
    /\ origin.body = "hello"
    /\ HeadersGet(request.headers, "Access-Control-Request-Method") = Some("PUT")
    /\ response.status = 200
    /\ HeadersGet(response.headers, "Access-Control-Allow-Methods") = Some("PUT")

\* C9: one request triggers at most one forwarded call; a response on the
\* forwarding path is produced only after that call has completed; and a
\* request that ends on the no-target, ambiguous-query, invalid-URL or denied
\* path makes no forwarded call at all.
C9_AtMostOneCallAwaited ==
    /\ calls <= 1
    /\ (response # NULL => pc \in ErrorPaths \cup {"proxied"})
    /\ (pc = "proxied" => response # NULL /\ calls = 1 /\ callState = "completed")
    /\ (pc \in ErrorPaths
            => /\ response # NULL
               /\ response.status = CASE pc = "noTarget" -> 200
                                      [] pc = "denied" -> 403
                                      [] OTHER -> 400
               /\ calls = 0
               /\ callState = "none"
               /\ outbound = NULL)
    /\ (callState = "inflight" => response = NULL)

C9_Witness ==
    /\ pc = "proxied"
    /\ response # NULL
    /\ calls = 1
    /\ callState = "completed"
    /\ request.method = "POST"

=============================================================================
